---- MODULE Spec2Model ----
(***************************************************************************)
(* Credit-card fraud detection: the training script (train_model.py) and   *)
(* the Streamlit app (app.py), which meet only through three artifact      *)
(* files on disk: fraud_model.joblib, scaler.joblib, feature_names.joblib. *)
(*                                                                         *)
(* Numbers.  A Python float is modelled as an exact rational <<n, d>> with *)
(* d > 0; a Python int as an integer.  The parameters and samples used     *)
(* below are dyadic or small enough that the float arithmetic of the code  *)
(* is exact on them.                                                       *)
(***************************************************************************)
EXTENDS Integers, Sequences, FiniteSets, TLC

(***************************************************************************)
(* Bounds of the model.                                                    *)
(***************************************************************************)
\* predict_proba returns one of 0/PDen, 1/PDen, ..., PDen/PDen
PDen == 10
\* training runs that may start over the life of the disk
MaxRuns == 2

(***************************************************************************)
(* Rational arithmetic standing for Python float arithmetic.               *)
(***************************************************************************)
RLt(a, b) == a[1] * b[2] < b[1] * a[2]
RGt(a, b) == RLt(b, a)
REq(a, b) == a[1] * b[2] = b[1] * a[2]
RAdd(a, b) == <<a[1] * b[2] + b[1] * a[2], a[2] * b[2]>>
RDiv(a, b) == <<a[1] * b[2], a[2] * b[1]>>
RSub(a, b) == <<a[1] * b[2] - b[1] * a[2], a[2] * b[2]>>
RMul(a, b) == <<a[1] * b[1], a[2] * b[2]>>
RInt(k) == <<k, 1>>

\* Python int(x) of the float x = n/d (d > 0): truncation toward zero
IntTrunc(n, d) == IF n >= 0 THEN n \div d ELSE -((-n) \div d)

SeqToSet(s) == {s[i] : i \in 1..Len(s)}

\* lines 22, 72, 94: the one seed of the script (np.random.seed, random_state)
SEED == 42

\* the pseudo-random stream a seed fixes.  A linear congruential generator
\* stands for numpy's: the k-th number drawn is a function of the seed and k
NextRand(s) == (s * 75 + 74) % 65537

RECURSIVE Draw(_, _)
Draw(seed, k) == IF k = 0 THEN NextRand(seed) ELSE NextRand(Draw(seed, k - 1))

Remove(s, k) == SubSeq(s, 1, k - 1) \o SubSeq(s, k + 1, Len(s))

\* a permutation of items drawn from the stream at state s
RECURSIVE Permute(_, _)
Permute(s, items) ==
    IF items = <<>> THEN <<>>
    ELSE LET k == (s % Len(items)) + 1
         IN  <<items[k]>> \o Permute(NextRand(s), Remove(items, k))

(***************************************************************************)
(* train_model.py                                                          *)
(***************************************************************************)
FEATURES ==
    << "amount", "hour_of_day", "day_of_week", "merchant_category",
       "num_transactions_1h", "num_transactions_24h", "avg_amount_30d",
       "distance_from_home", "is_online", "is_international", "card_present",
       "days_since_last_txn", "credit_limit_used_pct", "velocity_score",
       "geo_risk_score", "amount_to_avg_ratio", "txn_burst", "risk_composite" >>

\* one draw of make_legit: a value of each column inside its distribution's support
LegitRow ==
    [ amount |-> <<55, 1>>, hour_of_day |-> 14, day_of_week |-> 2,
      merchant_category |-> 0, num_transactions_1h |-> 1,
      num_transactions_24h |-> 5, avg_amount_30d |-> <<45, 1>>,
      distance_from_home |-> <<20, 1>>, is_online |-> 0,
      is_international |-> 0, card_present |-> 1,
      days_since_last_txn |-> <<2, 1>>, credit_limit_used_pct |-> <<1, 5>>,
      velocity_score |-> <<1, 6>>, geo_risk_score |-> <<1, 16>> ]

\* one draw of make_fraud
FraudRow ==
    [ amount |-> <<245, 1>>, hour_of_day |-> 3, day_of_week |-> 6,
      merchant_category |-> 7, num_transactions_1h |-> 4,
      num_transactions_24h |-> 12, avg_amount_30d |-> <<49, 2>>,
      distance_from_home |-> <<200, 1>>, is_online |-> 1,
      is_international |-> 1, card_present |-> 0,
      days_since_last_txn |-> <<1, 2>>, credit_limit_used_pct |-> <<4, 5>>,
      velocity_score |-> <<4, 5>>, geo_risk_score |-> <<3, 4>> ]

\* lines 35-36 and 54-55: the Poisson counts of a row vary with the number drawn
LegitDraw(r) ==
    [LegitRow EXCEPT !.num_transactions_1h = r % 4,
                     !.num_transactions_24h = ((r + 1) % 3) * 3]
FraudDraw(r) ==
    [FraudRow EXCEPT !.num_transactions_1h = 3 + (r % 4),
                     !.num_transactions_24h = 9 + (r % 3) * 3]

\* the rows the two populations can hold
LegitRows == {LegitDraw(r) : r \in 0..11}
FraudRows == {FraudDraw(r) : r \in 0..11}

\* lines 29-46 and 48-65: n rows drawn from the global stream, of which skip
\* numbers have been drawn before
make_legit(seed, skip, n) == [i \in 1..n |-> LegitDraw(Draw(seed, skip + i))]
make_fraud(seed, skip, n) == [i \in 1..n |-> FraudDraw(Draw(seed, skip + i))]

\* lines 26-27
NFraud(n, rate) == IntTrunc(n * rate[1], rate[2])
\* mutant: the legitimate population is not reduced by the fraud rows
NLegit_all(n, rate) == n

NLegit(n, rate) == n - NFraud(n, rate)

\* lines 68 and 70: the label column
WithLabel(row, label) ==
    [c \in DOMAIN row \cup {"is_fraud"} |->
        IF c = "is_fraud" THEN label ELSE row[c]]

\* lines 74-77: the derived columns of one row
TrainDerived(row) ==
    [c \in DOMAIN row \cup {"amount_to_avg_ratio", "txn_burst", "risk_composite"} |->
        CASE c = "amount_to_avg_ratio" ->
                RDiv(row.amount, RAdd(row.avg_amount_30d, RInt(1)))
          [] c = "txn_burst" ->
                <<row.num_transactions_1h, row.num_transactions_24h + 1>>
          [] c = "risk_composite" ->
                RDiv(RAdd(row.velocity_score, row.geo_risk_score), RInt(2))
          [] OTHER -> row[c]]

\* the rows of df whose index is in I, as a bag (row -> multiplicity)
BagOfRows(frame, I) ==
    [r \in {frame[i] : i \in I} |-> Cardinality({i \in I : frame[i] = r})]

Labels(bag) == {r.is_fraud : r \in DOMAIN bag}

ClassCount(frame, I, k) == Cardinality({i \in I : frame[i].is_fraud = k})

\* line 94, test_size=0.2: n_test = ceil(0.2 * n), n_train = n - n_test
NTest(n) == (n + 4) \div 5
NTrain(n) == n - NTest(n)

\* line 94, stratify=y: how many rows of each class the train partition takes.
\* Each class gets the floor of its share c_k * m / t; a row left over goes to
\* the class with the larger remainder, a tie is broken by the random state.
TrainAlloc(c0, c1, m) ==
    LET t == c0 + c1
        f0 == (c0 * m) \div t
        f1 == (c1 * m) \div t
        r0 == (c0 * m) % t
        r1 == (c1 * m) % t
    IN  IF f0 + f1 = m THEN {<<f0, f1>>}
        ELSE IF r0 > r1 THEN {<<f0 + 1, f1>>}
        ELSE IF r1 > r0 THEN {<<f0, f1 + 1>>}
        ELSE {<<f0 + 1, f1>>, <<f0, f1 + 1>>}

\* line 94: the error train_test_split raises on this frame, "none" if it splits
SplitError(frame) ==
    LET n  == Len(frame)
        c0 == ClassCount(frame, 1..n, 0)
        c1 == ClassCount(frame, 1..n, 1)
        nc == Cardinality({k \in {0, 1} : ClassCount(frame, 1..n, k) > 0})
    IN  IF NTrain(n) = 0 THEN "ValueError"
        ELSE IF (c0 > 0 /\ c0 < 2) \/ (c1 > 0 /\ c1 < 2) THEN "ValueError"
        ELSE IF NTrain(n) < nc \/ NTest(n) < nc THEN "ValueError"
        ELSE "none"

\* line 94: the index sets the train partition may get
TrainIndexSets(frame) ==
    LET n == Len(frame)
    IN  {I \in SUBSET (1..n) :
            <<ClassCount(frame, I, 0), ClassCount(frame, I, 1)>> \in
                TrainAlloc(ClassCount(frame, 1..n, 0),
                           ClassCount(frame, 1..n, 1), NTrain(n))}

\* line 94, random_state=42: the train partition the seed fixes.  Each class
\* gives the rows that come first in the seeded order; a tie of the allocation
\* is broken by the stream.
SplitIndices(frame) ==
    LET n == Len(frame)
        allocs == TrainAlloc(ClassCount(frame, 1..n, 0),
                             ClassCount(frame, 1..n, 1), NTrain(n))
        alloc == IF Draw(SEED, 0) % 2 = 0
                   THEN CHOOSE a \in allocs : \A b \in allocs : a[1] >= b[1]
                   ELSE CHOOSE a \in allocs : \A b \in allocs : a[1] <= b[1]
        order == Permute(Draw(SEED, 1), [i \in 1..n |-> i])
        rank(i) == CHOOSE p \in 1..n : order[p] = i
        first(k, m) ==
            {i \in 1..n :
                /\ frame[i].is_fraud = k
                /\ Cardinality({j \in 1..n : /\ frame[j].is_fraud = k
                                              /\ rank(j) < rank(i)}) < m}
    IN  first(0, alloc[1]) \cup first(1, alloc[2])

(***************************************************************************)
(* The artifact files.  A file holds what joblib.dump wrote: the run that  *)
(* wrote it, the feature names it carries (scaler.feature_names_in_, the   *)
(* persisted list) and the number of features it expects (n_features_in_), *)
(* for a scaler the rows it was fitted on (what mean_, scale_ and           *)
(* n_samples_seen_ are computed from), for a model its fitted forest.      *)
(***************************************************************************)
EmptyBag == BagOfRows(<<>>, {})
NoForest == [col |-> 0, below |-> 0, above |-> 0]

Absent == [present |-> FALSE, run |-> 0, names |-> <<>>, n |-> 0,
           seen |-> EmptyBag, forest |-> NoForest]
Artifact(r, names, n) == [present |-> TRUE, run |-> r, names |-> names, n |-> n,
                          seen |-> EmptyBag, forest |-> NoForest]

\* lines 100-101: a scaler fitted on the rows of a partition
FittedScaler(r, names, rows) == [Artifact(r, names, Len(names)) EXCEPT !.seen = rows]

\* lines 108-117: the forests a fit may yield.  A forest is a function of the
\* scaled vector; here it tests the sign of one scaled column and answers
\* with the fraud share of the leaf, in units of 1/PDen
Forests ==
    { [col |-> 1, below |-> 2, above |-> 8],
      [col |-> 2, below |-> 5, above |-> 7] }

FittedModel(r, n, forest) == [Artifact(r, <<>>, n) EXCEPT !.forest = forest]

\* a partition as the scaler by transformed it
Scaled(rows, by) == [rows |-> rows, by |-> by]
NoScaled == Scaled(EmptyBag, Absent)

NoError == [at |-> "none", kind |-> "none", what |-> {}]

VARIABLES
    \* the disk
    disk,
    \* train_model.py: the script's constants and the running process
    N, FRAUD_RATE, run, tpc, steps, terr,
    n_fraud, n_legit, df, X_train, X_test, fit_scaler, fit_model,
    X_train_sc, X_test_sc,
    \* the tables the runs so far have generated, one per run
    tables,
    \* app.py
    apc, cache, model, scaler, features, MODEL_LOADED, shown,
    input_data, input_df, prob_fraud, prediction, risk_tier, app_err,
    analyze_btn, spinner, flags,
    \* the first inference this app process completed: its record, its result
    \* and the artifacts it ran on
    first,
    \* the installed scikit-learn raises on a feature-name mismatch (>= 1.2)
    strict_names

diskVars == <<disk>>
trainVars == <<N, FRAUD_RATE, run, tpc, steps, terr,
               n_fraud, n_legit, df, X_train, X_test, fit_scaler, fit_model,
               X_train_sc, X_test_sc, tables>>
appVars == <<apc, cache, model, scaler, features, MODEL_LOADED, shown,
             input_data, input_df, prob_fraud, prediction, risk_tier, app_err,
             analyze_btn, spinner, flags, first, strict_names>>
vars == <<disk, trainVars, appVars>>

\* mutant: the shuffle takes its randomness from the process, not from the seed
Shuffle_unseeded(seed, n) == Permute(NextRand(seed + run), [i \in 1..n |-> i])

\* mutant: the rows are sampled with replacement
Shuffle_replace(seed, n) == [i \in 1..n |-> (Draw(seed, i) % n) + 1]

\* line 72, sample(frac=1, random_state=42): the order the n rows are taken in
Shuffle(seed, n) == Permute(NextRand(seed), [i \in 1..n |-> i])

(***************************************************************************)
(* train_model.py, one action per section of the script.                   *)
(***************************************************************************)
TrainRunning ==
    tpc \in {"start", "generated", "split", "scaled", "fitted", "evaluated",
             "model_saved", "scaler_saved"}

TrainFail(at, kind) ==
    /\ tpc' = "failed"
    /\ terr' = [at |-> at, kind |-> kind, what |-> {}]

\* a new process runs the script: lines 22-27
TrainStart ==
    /\ ~TrainRunning
    /\ run < MaxRuns
    /\ run' = run + 1
    /\ tpc' = "start"
    /\ steps' = <<>>
    /\ terr' = NoError
    /\ n_fraud' = NFraud(N, FRAUD_RATE)
    /\ n_legit' = NLegit(N, FRAUD_RATE)
    /\ df' = <<>>
    /\ X_train' = EmptyBag
    /\ X_test' = EmptyBag
    /\ fit_scaler' = Absent
    /\ fit_model' = Absent
    /\ X_train_sc' = NoScaled
    /\ X_test_sc' = NoScaled
    /\ UNCHANGED <<disk, N, FRAUD_RATE, tables, appVars>>

\* lines 67-88: the two populations, their labels, the shuffle, the derived
\* columns.  numpy refuses a negative size.
Generate ==
    /\ tpc = "start"
    /\ IF n_legit < 0
         THEN TrainFail("make_legit", "ValueError") /\ UNCHANGED <<df, steps, tables>>
       ELSE IF n_fraud < 0
         THEN TrainFail("make_fraud", "ValueError") /\ UNCHANGED <<df, steps, tables>>
       ELSE LET legit == make_legit(SEED, 0, n_legit)
                fraud == make_fraud(SEED, n_legit, n_fraud)
                df_legit == [i \in 1..n_legit |-> WithLabel(legit[i], 0)]
                df_fraud == [i \in 1..n_fraud |-> WithLabel(fraud[i], 1)]
                cat == df_legit \o df_fraud
                perm == Shuffle(SEED, Len(cat))
            IN  /\ df' = [i \in 1..Len(cat) |-> TrainDerived(cat[perm[i]])]
                /\ tables' = Append(tables, df')
                /\ tpc' = "generated"
                /\ steps' = Append(steps, "generate")
                /\ UNCHANGED terr
    /\ UNCHANGED <<disk, N, FRAUD_RATE, run, n_fraud, n_legit,
                   X_train, X_test, fit_scaler, fit_model,
                   X_train_sc, X_test_sc, appVars>>

\* lines 93-95
Split ==
    /\ tpc = "generated"
    /\ IF SplitError(df) # "none"
         THEN TrainFail("train_test_split", SplitError(df))
              /\ UNCHANGED <<X_train, X_test, steps>>
       ELSE \E I \in TrainIndexSets(df) :
              /\ I = SplitIndices(df)
              /\ X_train' = BagOfRows(df, I)
              /\ X_test' = BagOfRows(df, (1..Len(df)) \ I)
              /\ tpc' = "split"
              /\ steps' = Append(steps, "split")
              /\ UNCHANGED terr
    /\ UNCHANGED <<disk, N, FRAUD_RATE, run, n_fraud, n_legit, df,
                   fit_scaler, fit_model, X_train_sc, X_test_sc, tables, appVars>>

\* mutant: the test partition is scaled by a scaler fitted on it (fit_transform)
Scale_refit ==
    /\ tpc = "split"
    /\ fit_scaler' = FittedScaler(run, FEATURES, X_train)
    /\ X_train_sc' = Scaled(X_train, fit_scaler')
    /\ X_test_sc' = Scaled(X_test, FittedScaler(run, FEATURES, X_test))
    /\ tpc' = "scaled"
    /\ steps' = Append(steps, "scale")
    /\ UNCHANGED <<disk, N, FRAUD_RATE, run, terr, n_fraud, n_legit, df,
                   X_train, X_test, fit_model, tables, appVars>>

\* lines 100-102: fitted on the DataFrame X_train, so the scaler keeps its
\* names; the one scaler transforms both partitions
Scale ==
    /\ tpc = "split"
    /\ fit_scaler' = FittedScaler(run, FEATURES, X_train)
    /\ X_train_sc' = Scaled(X_train, fit_scaler')
    /\ X_test_sc' = Scaled(X_test, fit_scaler')
    /\ tpc' = "scaled"
    /\ steps' = Append(steps, "scale")
    /\ UNCHANGED <<disk, N, FRAUD_RATE, run, terr, n_fraud, n_legit, df,
                   X_train, X_test, fit_model, tables, appVars>>

\* mutant: the fitted model is written at once, as a checkpoint
Fit_checkpoint ==
    /\ tpc = "scaled"
    /\ \E f \in Forests :
         fit_model' = FittedModel(run, X_train_sc.by.n, f)
    /\ disk' = [disk EXCEPT !.model = fit_model']
    /\ tpc' = "fitted"
    /\ steps' = Append(steps, "fit")
    /\ UNCHANGED <<N, FRAUD_RATE, run, terr, n_fraud, n_legit, df,
                   X_train, X_test, fit_scaler, X_train_sc, X_test_sc, tables,
                   appVars>>

\* lines 108-117: fitted on the array X_train_sc, which carries no names
Fit ==
    /\ tpc = "scaled"
    /\ \E f \in Forests :
         fit_model' = FittedModel(run, X_train_sc.by.n, f)
    /\ tpc' = "fitted"
    /\ steps' = Append(steps, "fit")
    /\ UNCHANGED <<disk, N, FRAUD_RATE, run, terr, n_fraud, n_legit, df,
                   X_train, X_test, fit_scaler, X_train_sc, X_test_sc, tables,
                   appVars>>

\* lines 122-139: predict_proba(X_test_sc)[:, 1] needs a model that saw both
\* classes, roc_auc_score a test partition that holds both
Evaluate ==
    /\ tpc = "fitted"
    /\ IF Cardinality(Labels(X_train_sc.rows)) < 2
         THEN TrainFail("predict_proba", "IndexError") /\ UNCHANGED steps
       ELSE IF Cardinality(Labels(X_test_sc.rows)) < 2
         THEN TrainFail("roc_auc_score", "ValueError") /\ UNCHANGED steps
       ELSE /\ tpc' = "evaluated"
            /\ steps' = Append(steps, "evaluate")
            /\ UNCHANGED terr
    /\ UNCHANGED <<disk, N, FRAUD_RATE, run, n_fraud, n_legit, df,
                   X_train, X_test, fit_scaler, fit_model,
                   X_train_sc, X_test_sc, tables, appVars>>

\* line 144
DumpModel ==
    /\ tpc = "evaluated"
    /\ disk' = [disk EXCEPT !.model = fit_model]
    /\ tpc' = "model_saved"
    /\ steps' = Append(steps, "dump_model")
    /\ UNCHANGED <<N, FRAUD_RATE, run, terr, n_fraud, n_legit, df,
                   X_train, X_test, fit_scaler, fit_model,
                   X_train_sc, X_test_sc, tables, appVars>>

\* line 145
DumpScaler ==
    /\ tpc = "model_saved"
    /\ disk' = [disk EXCEPT !.scaler = fit_scaler]
    /\ tpc' = "scaler_saved"
    /\ steps' = Append(steps, "dump_scaler")
    /\ UNCHANGED <<N, FRAUD_RATE, run, terr, n_fraud, n_legit, df,
                   X_train, X_test, fit_scaler, fit_model,
                   X_train_sc, X_test_sc, tables, appVars>>

\* lines 146-148
DumpFeatures ==
    /\ tpc = "scaler_saved"
    /\ disk' = [disk EXCEPT !.features = Artifact(run, FEATURES, Len(FEATURES))]
    /\ tpc' = "done"
    /\ steps' = Append(steps, "dump_features")
    /\ UNCHANGED <<N, FRAUD_RATE, run, terr, n_fraud, n_legit, df,
                   X_train, X_test, fit_scaler, fit_model,
                   X_train_sc, X_test_sc, tables, appVars>>

\* the process is stopped from outside between two statements; its memory is gone
TrainKill ==
    /\ TrainRunning
    /\ tpc' = "killed"
    /\ df' = <<>>
    /\ X_train' = EmptyBag
    /\ X_test' = EmptyBag
    /\ fit_scaler' = Absent
    /\ fit_model' = Absent
    /\ X_train_sc' = NoScaled
    /\ X_test_sc' = NoScaled
    /\ UNCHANGED <<disk, N, FRAUD_RATE, run, steps, terr, n_fraud, n_legit,
                   tables, appVars>>

TrainNext ==
    \/ TrainStart
    \/ Generate
    \/ Split
    \/ Scale
    \/ Fit
    \/ Evaluate
    \/ DumpModel
    \/ DumpScaler
    \/ DumpFeatures
    \/ TrainKill

(***************************************************************************)
(* app.py                                                                  *)
(***************************************************************************)
\* lines 425-457: states of the sidebar widgets, inside each widget's range
WidgetStates ==
    { [ amount |-> <<120, 1>>, hour_of_day |-> 14, day_of_week |-> "Tue",
        days_since |-> <<2, 1>>, merchant_cat |-> 0, distance |-> <<15, 1>>,
        is_online |-> FALSE, is_intl |-> FALSE, card_present |-> TRUE,
        num_txn_1h |-> 1, num_txn_24h |-> 4, avg_amt_30d |-> <<85, 1>>,
        credit_pct |-> <<1, 5>>, velocity_sc |-> <<1, 10>>,
        geo_risk_sc |-> <<1, 20>>, analyze_btn |-> FALSE ],
      [ amount |-> <<5000, 1>>, hour_of_day |-> 3, day_of_week |-> "Sun",
        days_since |-> <<0, 1>>, merchant_cat |-> 9, distance |-> <<1000, 1>>,
        is_online |-> TRUE, is_intl |-> TRUE, card_present |-> FALSE,
        num_txn_1h |-> 20, num_txn_24h |-> 0, avg_amt_30d |-> <<1, 1>>,
        credit_pct |-> <<1, 1>>, velocity_sc |-> <<1, 1>>,
        geo_risk_sc |-> <<1, 1>>, analyze_btn |-> TRUE ],
      [ amount |-> <<1, 2>>, hour_of_day |-> 0, day_of_week |-> "Mon",
        days_since |-> <<30, 1>>, merchant_cat |-> 4, distance |-> <<0, 1>>,
        is_online |-> TRUE, is_intl |-> FALSE, card_present |-> TRUE,
        num_txn_1h |-> 0, num_txn_24h |-> 50, avg_amt_30d |-> <<3000, 1>>,
        credit_pct |-> <<0, 1>>, velocity_sc |-> <<0, 1>>,
        geo_risk_sc |-> <<0, 1>>, analyze_btn |-> TRUE ] }

\* mutant: the days are numbered from 1
dow_map_onebased ==
    [d \in {"Mon", "Tue", "Wed", "Thu", "Fri", "Sat", "Sun"} |->
        CASE d = "Mon" -> 1 [] d = "Tue" -> 2 [] d = "Wed" -> 3 [] d = "Thu" -> 4
          [] d = "Fri" -> 5 [] d = "Sat" -> 6 [] d = "Sun" -> 7]

\* line 429
dow_map ==
    [d \in {"Mon", "Tue", "Wed", "Thu", "Fri", "Sat", "Sun"} |->
        CASE d = "Mon" -> 0 [] d = "Tue" -> 1 [] d = "Wed" -> 2 [] d = "Thu" -> 3
          [] d = "Fri" -> 4 [] d = "Sat" -> 5 [] d = "Sun" -> 6]

\* int(bool)
BoolInt(b) == IF b THEN 1 ELSE 0

\* mutant: the denominator loses its + 1
amount_to_avg_noplus(w) == RDiv(w.amount, w.avg_amt_30d)

\* mutant: the second denominator loses its + 1
txn_burst_noplus(w) == <<w.num_txn_1h, w.num_txn_24h>>

\* lines 470-472
amount_to_avg(w) == RDiv(w.amount, RAdd(w.avg_amt_30d, RInt(1)))
txn_burst(w) == <<w.num_txn_1h, w.num_txn_24h + 1>>
risk_comp(w) == RDiv(RAdd(w.velocity_sc, w.geo_risk_sc), RInt(2))

\* lines 474-493
InputData(w) ==
    [ amount |-> w.amount,
      hour_of_day |-> w.hour_of_day,
      day_of_week |-> dow_map[w.day_of_week],
      merchant_category |-> w.merchant_cat,
      num_transactions_1h |-> w.num_txn_1h,
      num_transactions_24h |-> w.num_txn_24h,
      avg_amount_30d |-> w.avg_amt_30d,
      distance_from_home |-> w.distance,
      is_online |-> BoolInt(w.is_online),
      is_international |-> BoolInt(w.is_intl),
      card_present |-> BoolInt(w.card_present),
      days_since_last_txn |-> w.days_since,
      credit_limit_used_pct |-> w.credit_pct,
      velocity_score |-> w.velocity_sc,
      geo_risk_score |-> w.geo_risk_sc,
      amount_to_avg_ratio |-> amount_to_avg(w),
      txn_burst |-> txn_burst(w),
      risk_composite |-> risk_comp(w) ]

\* mutant: a selection that fills the columns the record lacks (reindex)
MissingNames_reindex(names, data) == {}

\* line 495, pd.DataFrame([input_data])[FEATURES]: the names of the list the
\* record does not hold; pandas raises KeyError naming them
MissingNames(names, data) == {c \in SeqToSet(names) : c \notin DOMAIN data}

\* lines 475-492: the keys of input_data, in the order the dict is written
InputFields ==
    << "amount", "hour_of_day", "day_of_week", "merchant_category",
       "num_transactions_1h", "num_transactions_24h", "avg_amount_30d",
       "distance_from_home", "is_online", "is_international", "card_present",
       "days_since_last_txn", "credit_limit_used_pct", "velocity_score",
       "geo_risk_score", "amount_to_avg_ratio", "txn_burst", "risk_composite" >>

\* a cell pandas has no value for
NaN == <<0, 0>>

\* mutant: the whole record is passed on in the order it was assembled
SelectColumns_unordered(names, data) ==
    [i \in 1..Len(InputFields) |->
        [name |-> InputFields[i], value |-> data[InputFields[i]]]]

\* line 495: the one-row frame, its columns in the order of the list (every name
\* is a key of the record here: line 495 raises before it selects otherwise)
SelectColumns(names, data) ==
    [i \in 1..Len(names) |->
        [name |-> names[i],
         value |-> IF names[i] \in DOMAIN data THEN data[names[i]] ELSE NaN]]

ColumnNames(frame) == [i \in 1..Len(frame) |-> frame[i].name]

\* line 496: what scaler.transform raises on a frame with these columns
TransformError(sc, cols, strict) ==
    IF Len(cols) # sc.n THEN "ValueError"
    ELSE IF strict /\ cols # sc.names THEN "ValueError"
    ELSE "none"

\* line 497: what model.predict_proba raises on an array of k columns
PredictError(m, k) == IF k # m.n THEN "ValueError" ELSE "none"

\* the columns that hold Python ints; the others hold floats
IntColumns ==
    { "hour_of_day", "day_of_week", "merchant_category", "num_transactions_1h",
      "num_transactions_24h", "is_online", "is_international", "card_present" }

AsFloat(c, v) == IF c \in IntColumns THEN RInt(v) ELSE v

RECURSIVE BagSize(_, _)
BagSize(bag, rows) ==
    IF rows = {} THEN 0
    ELSE LET r == CHOOSE x \in rows : TRUE
         IN  bag[r] + BagSize(bag, rows \ {r})

RECURSIVE SumColumn(_, _, _)
SumColumn(bag, rows, c) ==
    IF rows = {} THEN RInt(0)
    ELSE LET r == CHOOSE x \in rows : TRUE
         IN  RAdd(RMul(RInt(bag[r]), AsFloat(c, r[c])),
                  SumColumn(bag, rows \ {r}, c))

\* StandardScaler.mean_ of the column c over the rows the scaler was fitted on
Mean(bag, c) == RDiv(SumColumn(bag, DOMAIN bag, c), RInt(BagSize(bag, DOMAIN bag)))

\* line 496, scaler.transform: column i of the frame is centred on the mean of
\* the scaler's i-th column (the division by scale_ > 0 keeps the sign, and the
\* sign is all the forests of the model read)
Transform(sc, frame) ==
    [i \in 1..Len(frame) |->
        RSub(AsFloat(frame[i].name, frame[i].value), Mean(sc.seen, sc.names[i]))]

\* mutant: the forest is read from the file at every inference
PredictProba_reload(m, x) ==
    IF RGt(x[disk.model.forest.col], RInt(0))
      THEN <<disk.model.forest.above, PDen>>
      ELSE <<disk.model.forest.below, PDen>>

\* lines 497-498, float(model.predict_proba(input_sc)[0][1])
PredictProba(m, x) ==
    IF RGt(x[m.forest.col], RInt(0))
      THEN <<m.forest.above, PDen>>
      ELSE <<m.forest.below, PDen>>

\* mutant: the decision is fraud above 0.7 only
Prediction_strict(p) == IF RGt(p, <<7, 10>>) THEN 1 ELSE 0

\* mutant: the threshold is met by 0.5 itself
Prediction_ge(p) == IF ~RLt(p, <<1, 2>>) THEN 1 ELSE 0

\* line 499
Prediction(p) == IF RGt(p, <<1, 2>>) THEN 1 ELSE 0

\* mutant: the first boundary belongs to the lower tier
RiskTier_le(p) ==
    IF ~RGt(p, <<1, 5>>) THEN "LOW"
    ELSE IF RLt(p, <<1, 2>>) THEN "MODERATE"
    ELSE IF RLt(p, <<4, 5>>) THEN "HIGH"
    ELSE "CRITICAL"

\* lines 502-505
RiskTier(p) ==
    IF RLt(p, <<1, 5>>) THEN "LOW"
    ELSE IF RLt(p, <<1, 2>>) THEN "MODERATE"
    ELSE IF RLt(p, <<4, 5>>) THEN "HIGH"
    ELSE "CRITICAL"

\* lines 540-542: the spinner and its sleep
Spinner(w) == w.analyze_btn

When(cond, level, what) ==
    IF cond THEN <<[level |-> level, what |-> what]>> ELSE <<>>

\* mutant: the factors are listed from 0.5 on
Flags_ge(w, p) ==
    IF ~RLt(p, <<1, 2>>)
      THEN When(RGt(w.amount, RMul(w.avg_amt_30d, RInt(2))), "HIGH", "amount")
           \o When(w.hour_of_day < 6, "MED", "hour")
           \o When(w.is_intl, "MED", "international")
           \o When(RGt(w.distance, RInt(200)), "HIGH", "distance")
           \o When(w.num_txn_1h > 5, "HIGH", "burst")
           \o When(RGt(w.velocity_sc, <<7, 10>>), "HIGH", "velocity")
           \o When(RGt(w.geo_risk_sc, <<7, 10>>), "HIGH", "geo")
           \o When(RGt(w.credit_pct, <<85, 100>>), "MED", "credit")
      ELSE <<[level |-> "LOW", what |-> "none"]>>

\* lines 599-610
Flags(w, p) ==
    IF RGt(p, <<1, 2>>)
      THEN When(RGt(w.amount, RMul(w.avg_amt_30d, RInt(2))), "HIGH", "amount")
           \o When(w.hour_of_day < 6, "MED", "hour")
           \o When(w.is_intl, "MED", "international")
           \o When(RGt(w.distance, RInt(200)), "HIGH", "distance")
           \o When(w.num_txn_1h > 5, "HIGH", "burst")
           \o When(RGt(w.velocity_sc, <<7, 10>>), "HIGH", "velocity")
           \o When(RGt(w.geo_risk_sc, <<7, 10>>), "HIGH", "geo")
           \o When(RGt(w.credit_pct, <<85, 100>>), "MED", "credit")
      ELSE <<[level |-> "LOW", what |-> "none"]>>

NoCache == [loaded |-> FALSE, model |-> Absent, scaler |-> Absent, features |-> Absent]
NoData == [c \in {} |-> 0]
NoProb == <<0, 0>>
NoPrediction == 0 - 1
NoFirst ==
    [ data |-> NoData, prob |-> NoProb, prediction |-> NoPrediction,
      tier |-> "none", flags |-> <<>>, clicked |-> FALSE, cache |-> NoCache,
      between |-> FALSE ]

\* what an inference that has completed leaves in the record of the first one
Remember(data, p, decision, tier, factors, btn) ==
    IF first.data = NoData
      THEN [ data |-> data, prob |-> p, prediction |-> decision,
             tier |-> tier, flags |-> factors, clicked |-> btn,
             cache |-> cache, between |-> FALSE ]
    ELSE IF data # first.data
      THEN [first EXCEPT !.between = TRUE]
    ELSE first

AppClear ==
    /\ shown' = "none"
    /\ input_data' = NoData
    /\ input_df' = <<>>
    /\ prob_fraud' = NoProb
    /\ prediction' = NoPrediction
    /\ risk_tier' = "none"
    /\ app_err' = NoError
    /\ analyze_btn' = FALSE
    /\ spinner' = FALSE
    /\ flags' = <<>>

AppResultUnchanged ==
    UNCHANGED <<shown, input_data, input_df, prob_fraud, prediction, risk_tier,
                app_err, analyze_btn, spinner, flags, first>>

\* a script run begins (the first one, or a rerun after a widget changed):
\* line 31 calls load_artifacts, which st.cache_resource answers from its cache
\* once a call has returned
ScriptStart ==
    /\ apc \in {"idle", "done", "stopped", "error"}
    /\ AppClear
    /\ IF cache.loaded
         THEN /\ model' = cache.model
              /\ scaler' = cache.scaler
              /\ features' = cache.features
              /\ MODEL_LOADED' = TRUE
              /\ apc' = "check"
         ELSE /\ model' = Absent
              /\ scaler' = Absent
              /\ features' = Absent
              /\ MODEL_LOADED' = FALSE
              /\ apc' = "load_model"
    /\ UNCHANGED <<disk, trainVars, cache, first, strict_names>>

\* line 25; FileNotFoundError is caught at line 33
LoadModel ==
    /\ apc = "load_model"
    /\ IF disk.model.present
         THEN model' = disk.model /\ apc' = "load_scaler"
         ELSE model' = model /\ apc' = "check"
    /\ AppResultUnchanged
    /\ UNCHANGED <<disk, trainVars, cache, scaler, features, MODEL_LOADED, strict_names>>

\* line 26
LoadScaler ==
    /\ apc = "load_scaler"
    /\ IF disk.scaler.present
         THEN scaler' = disk.scaler /\ apc' = "load_features"
         ELSE scaler' = scaler /\ apc' = "check"
    /\ AppResultUnchanged
    /\ UNCHANGED <<disk, trainVars, cache, model, features, MODEL_LOADED, strict_names>>

\* mutant: the load refuses three files that one run did not write
LoadFeatures_versioned ==
    /\ apc = "load_features"
    /\ IF disk.features.present
         THEN /\ features' = disk.features
              /\ IF /\ disk.features.run = model.run
                    /\ disk.features.run = scaler.run
                   THEN /\ cache' = [loaded |-> TRUE, model |-> model,
                                     scaler |-> scaler, features |-> disk.features]
                        /\ MODEL_LOADED' = TRUE
                   ELSE UNCHANGED <<cache, MODEL_LOADED>>
         ELSE UNCHANGED <<features, cache, MODEL_LOADED>>
    /\ apc' = "check"
    /\ AppResultUnchanged
    /\ UNCHANGED <<disk, trainVars, model, scaler, strict_names>>

\* lines 27-32: the call returns, its result is cached
LoadFeatures ==
    /\ apc = "load_features"
    /\ IF disk.features.present
         THEN /\ features' = disk.features
              /\ cache' = [loaded |-> TRUE, model |-> model, scaler |-> scaler,
                           features |-> disk.features]
              /\ MODEL_LOADED' = TRUE
         ELSE UNCHANGED <<features, cache, MODEL_LOADED>>
    /\ apc' = "check"
    /\ AppResultUnchanged
    /\ UNCHANGED <<disk, trainVars, model, scaler, strict_names>>

\* mutant: the script goes on after the message
ModelCheck_nostop ==
    /\ apc = "check"
    /\ apc' = "inputs"
    /\ shown' = IF MODEL_LOADED THEN shown ELSE "model_files_not_found"
    /\ UNCHANGED <<disk, trainVars, cache, model, scaler, features, MODEL_LOADED,
                   input_data, input_df, prob_fraud, prediction, risk_tier,
                   app_err, analyze_btn, spinner, flags, first, strict_names>>

\* lines 409-412
ModelCheck ==
    /\ apc = "check"
    /\ IF MODEL_LOADED
         THEN apc' = "inputs" /\ shown' = shown
         ELSE apc' = "stopped" /\ shown' = "model_files_not_found"
    /\ UNCHANGED <<disk, trainVars, cache, model, scaler, features, MODEL_LOADED,
                   input_data, input_df, prob_fraud, prediction, risk_tier,
                   app_err, analyze_btn, spinner, flags, first, strict_names>>

AppFail(at, kind, what) ==
    /\ apc' = "error"
    /\ app_err' = [at |-> at, kind |-> kind, what |-> what]
    /\ shown' = "exception"

\* mutant: the model is run only in the script run the button started
Inference_onclick ==
    /\ apc = "inputs"
    /\ \E w0 \in WidgetStates, btn \in BOOLEAN :
         LET w == [w0 EXCEPT !.analyze_btn = btn]
         IN
         /\ analyze_btn' = btn
         /\ input_data' = InputData(w)
         /\ IF MissingNames(features.names, input_data') # {}
              THEN /\ AppFail("input_df", "KeyError",
                              MissingNames(features.names, input_data'))
                   /\ UNCHANGED <<input_df, prob_fraud, prediction, risk_tier,
                                  spinner, flags, first>>
            ELSE /\ input_df' = SelectColumns(features.names, input_data')
                 /\ IF TransformError(scaler, ColumnNames(input_df'), strict_names) # "none"
                      THEN /\ AppFail("scaler.transform", "ValueError", {})
                           /\ UNCHANGED <<prob_fraud, prediction, risk_tier,
                                          spinner, flags, first>>
                    ELSE IF PredictError(model, Len(input_df')) # "none"
                      THEN /\ AppFail("model.predict_proba", "ValueError", {})
                           /\ UNCHANGED <<prob_fraud, prediction, risk_tier,
                                          spinner, flags, first>>
                    ELSE IF ~btn
                      THEN /\ apc' = "done"
                           /\ UNCHANGED <<prob_fraud, prediction, risk_tier,
                                          spinner, flags, first, app_err, shown>>
                    ELSE /\ prob_fraud' = PredictProba(model, Transform(scaler, input_df'))
                         /\ prediction' = Prediction(prob_fraud')
                         /\ risk_tier' = RiskTier(prob_fraud')
                         /\ spinner' = Spinner(w)
                         /\ flags' = Flags(w, prob_fraud')
                         /\ first' = Remember(input_data', prob_fraud', prediction',
                                              risk_tier', flags', btn)
                         /\ apc' = "done"
                         /\ UNCHANGED <<app_err, shown>>
    /\ UNCHANGED <<disk, trainVars, cache, model, scaler, features, MODEL_LOADED,
                   strict_names>>

\* lines 425-610: the widgets' values, the feature vector, the model's answer,
\* the spinner, the risk factors.  An exception that is not caught ends the
\* script run; Streamlit shows it.
Inference ==
    /\ apc = "inputs"
    /\ \E w0 \in WidgetStates, btn \in BOOLEAN :
         LET w == [w0 EXCEPT !.analyze_btn = btn]
         IN
         /\ analyze_btn' = btn
         /\ input_data' = InputData(w)
         /\ IF MissingNames(features.names, input_data') # {}
              THEN /\ AppFail("input_df", "KeyError",
                              MissingNames(features.names, input_data'))
                   /\ UNCHANGED <<input_df, prob_fraud, prediction, risk_tier,
                                  spinner, flags, first>>
            ELSE /\ input_df' = SelectColumns(features.names, input_data')
                 /\ IF TransformError(scaler, ColumnNames(input_df'), strict_names) # "none"
                      THEN /\ AppFail("scaler.transform", "ValueError", {})
                           /\ UNCHANGED <<prob_fraud, prediction, risk_tier,
                                          spinner, flags, first>>
                    ELSE IF PredictError(model, Len(input_df')) # "none"
                      THEN /\ AppFail("model.predict_proba", "ValueError", {})
                           /\ UNCHANGED <<prob_fraud, prediction, risk_tier,
                                          spinner, flags, first>>
                    ELSE /\ prob_fraud' = PredictProba(model, Transform(scaler, input_df'))
                         /\ prediction' = Prediction(prob_fraud')
                         /\ risk_tier' = RiskTier(prob_fraud')
                         /\ spinner' = Spinner(w)
                         /\ flags' = Flags(w, prob_fraud')
                         /\ first' = Remember(input_data', prob_fraud', prediction',
                                              risk_tier', flags', btn)
                         /\ apc' = "done"
                         /\ UNCHANGED <<app_err, shown>>
    /\ UNCHANGED <<disk, trainVars, cache, model, scaler, features, MODEL_LOADED,
                   strict_names>>

AppNext ==
    \/ ScriptStart
    \/ LoadModel
    \/ LoadScaler
    \/ LoadFeatures
    \/ ModelCheck
    \/ Inference

(***************************************************************************)
(* Specifications.                                                         *)
(***************************************************************************)
InitProcesses ==
    /\ tpc = "idle"
    /\ steps = <<>>
    /\ terr = NoError
    /\ n_fraud = 0
    /\ n_legit = 0
    /\ df = <<>>
    /\ X_train = EmptyBag
    /\ X_test = EmptyBag
    /\ fit_scaler = Absent
    /\ fit_model = Absent
    /\ X_train_sc = NoScaled
    /\ X_test_sc = NoScaled
    /\ tables = <<>>
    /\ apc = "idle"
    /\ cache = NoCache
    /\ model = Absent
    /\ scaler = Absent
    /\ features = Absent
    /\ MODEL_LOADED = FALSE
    /\ shown = "none"
    /\ input_data = NoData
    /\ input_df = <<>>
    /\ prob_fraud = NoProb
    /\ prediction = NoPrediction
    /\ risk_tier = "none"
    /\ app_err = NoError
    /\ analyze_btn = FALSE
    /\ spinner = FALSE
    /\ flags = <<>>
    /\ first = NoFirst

EmptyDisk == [model |-> Absent, scaler |-> Absent, features |-> Absent]

\* the two programs of the repository on a disk that starts empty; the script's
\* constants are the smallest for which a run with both classes completes
Init ==
    /\ InitProcesses
    /\ run = 0
    /\ disk = EmptyDisk
    /\ N = 6
    /\ FRAUD_RATE = <<1, 2>>
    /\ strict_names = TRUE

Next == TrainNext \/ AppNext

Spec == Init /\ [][Next]_vars

\* feature lists of an earlier training whose list was another one: the 15 raw names only,
\* the 18 names with the first two exchanged, or txn_burst under another name
LegacyLists ==
    { SubSeq(FEATURES, 1, 15),
      <<FEATURES[2], FEATURES[1]>> \o SubSeq(FEATURES, 3, Len(FEATURES)),
      [i \in 1..Len(FEATURES) |->
          IF FEATURES[i] = "txn_burst" THEN "txn_velocity" ELSE FEATURES[i]] }

LegacySeen ==
    BagOfRows(<<TrainDerived(WithLabel(LegitRow, 0)),
                TrainDerived(WithLabel(FraudRow, 1))>>, {1, 2})

LegacyDisk(names) ==
    [ model |-> FittedModel(0, Len(names), [col |-> 1, below |-> 2, above |-> 8]),
      scaler |-> FittedScaler(0, names, LegacySeen),
      features |-> Artifact(0, names, Len(names)) ]

\* the training script alone, its constants N and FRAUD_RATE drawn from small
\* sets, on a disk that is empty or holds the artifacts of an earlier training
NValues == {0 - 2, 0, 1, 2, 3, 5, 6}
RateValues == {<<0 - 1, 2>>, <<0, 1>>, <<1, 4>>, <<1, 2>>, <<1, 1>>, <<3, 2>>}

InitTrain ==
    /\ InitProcesses
    /\ run = 0
    /\ disk \in {EmptyDisk, LegacyDisk(FEATURES)}
    /\ N \in NValues
    /\ FRAUD_RATE \in RateValues
    /\ strict_names = TRUE

SpecTrain == InitTrain /\ [][TrainNext]_vars

\* the two programs on a disk that holds the three artifacts of an earlier
\* training with another feature list; one run of the repository's script is
\* left to follow it
InitLegacy ==
    /\ InitProcesses
    /\ run = MaxRuns - 1
    /\ \E names \in LegacyLists : disk = LegacyDisk(names)
    /\ N = 6
    /\ FRAUD_RATE = <<1, 2>>
    /\ strict_names \in BOOLEAN

SpecLegacy == InitLegacy /\ [][Next]_vars

\* the app alone on the three files of a completed training run whose forest
\* is any one that tests the first column: its two leaves take every value
AnyForests == {[col |-> 1, below |-> a, above |-> b] : a, b \in 0..PDen}

TrainedDisk(forest) ==
    [ model |-> FittedModel(1, Len(FEATURES), forest),
      scaler |-> FittedScaler(1, FEATURES, LegacySeen),
      features |-> Artifact(1, FEATURES, Len(FEATURES)) ]

InitApp ==
    /\ InitProcesses
    /\ run = 1
    /\ \E f \in AnyForests : disk = TrainedDisk(f)
    /\ N = 6
    /\ FRAUD_RATE = <<1, 2>>
    /\ strict_names = TRUE

SpecApp == InitApp /\ [][AppNext]_vars

(***************************************************************************)
(* The properties.                                                         *)
(***************************************************************************)
InferenceDone == apc = "done"
NoResult ==
    /\ prob_fraud = NoProb
    /\ prediction = NoPrediction
    /\ risk_tier = "none"

\* C1: whenever an inference has returned a probability p in [0, 1], the
\* decision is fraud exactly when p > 0.5 against the fixed threshold 0.5: at
\* p = 0.5 the decision is legitimate, above it fraud.
C1_DecisionRule ==
    InferenceDone =>
        /\ prob_fraud[2] > 0
        /\ 0 <= prob_fraud[1] /\ prob_fraud[1] <= prob_fraud[2]
        /\ prediction \in {0, 1}
        /\ (prediction = 1) <=> (2 * prob_fraud[1] > prob_fraud[2])

\* C1 witness: an inference that returned exactly 0.5 and decided legitimate
C1_Witness ==
    /\ InferenceDone
    /\ 2 * prob_fraud[1] = prob_fraud[2]
    /\ prediction = 0

\* C2: whenever an inference has returned p, the risk tier is exactly one of
\* LOW (p < 0.2), MODERATE (0.2 <= p < 0.5), HIGH (0.5 <= p < 0.8) and
\* CRITICAL (p >= 0.8); each boundary belongs to the higher tier.
C2_RiskTiers ==
    InferenceDone =>
        LET p == prob_fraud[1]
            d == prob_fraud[2]
        IN  /\ risk_tier \in {"LOW", "MODERATE", "HIGH", "CRITICAL"}
            /\ (risk_tier = "LOW") <=> (5 * p < d)
            /\ (risk_tier = "MODERATE") <=> (5 * p >= d /\ 2 * p < d)
            /\ (risk_tier = "HIGH") <=> (2 * p >= d /\ 5 * p < 4 * d)
            /\ (risk_tier = "CRITICAL") <=> (5 * p >= 4 * d)

\* C2 witness: an inference that returned exactly 0.2 and got MODERATE
C2_Witness ==
    /\ InferenceDone
    /\ 5 * prob_fraud[1] = prob_fraud[2]
    /\ risk_tier = "MODERATE"

\* the persisted list and the scaler of one run carry the same names: the
\* list that selected the columns of X is the list that was written
PersistedIsUsed ==
    /\ (disk.scaler.present /\ disk.features.present
            /\ disk.scaler.run = disk.features.run)
          => /\ disk.scaler.names = disk.features.names
             /\ disk.scaler.n = Len(disk.features.names)
    /\ (disk.features.present /\ disk.features.run >= 1)
          => Len(disk.features.names) = 18

RawFields == SubSeq(InputFields, 1, 15)

\* the raw part of an assembled record, as a row of the training frame
RawOf(data) == [c \in SeqToSet(RawFields) |-> data[c]]

\* the raw part of a training row, as the widget values the app reads
WidgetsOf(row) ==
    [ amount |-> row.amount, avg_amt_30d |-> row.avg_amount_30d,
      num_txn_1h |-> row.num_transactions_1h,
      num_txn_24h |-> row.num_transactions_24h,
      velocity_sc |-> row.velocity_score, geo_risk_sc |-> row.geo_risk_score ]

\* amount / (avg + 1), n1h / (n24h + 1), (velocity + geo) / 2 in integers
ClosedForm(r, amount, avg, n1h, n24h, vel, geo) ==
    /\ REq(r.amount_to_avg_ratio, <<amount[1] * avg[2], amount[2] * (avg[1] + avg[2])>>)
    /\ REq(r.txn_burst, <<n1h, n24h + 1>>)
    /\ REq(r.risk_composite, <<vel[1] * geo[2] + geo[1] * vel[2], 2 * vel[2] * geo[2]>>)

SameDerived(a, b) ==
    /\ REq(a.amount_to_avg_ratio, b.amount_to_avg_ratio)
    /\ REq(a.txn_burst, b.txn_burst)
    /\ REq(a.risk_composite, b.risk_composite)

\* C4: the derived features are the same function of the raw fields on both
\* paths: every record the app has assembled carries the values the training
\* script computes for its raw fields, every row of the training frame carries
\* the values the app computes for its raw fields, and both are
\* amount / (avg_amount_30d + 1), num_transactions_1h / (num_transactions_24h + 1)
\* and (velocity_score + geo_risk_score) / 2.
C4_SameFeatureEngineering ==
    /\ input_data # NoData =>
          /\ SameDerived(input_data, TrainDerived(RawOf(input_data)))
          /\ ClosedForm(input_data, input_data.amount, input_data.avg_amount_30d,
                        input_data.num_transactions_1h,
                        input_data.num_transactions_24h,
                        input_data.velocity_score, input_data.geo_risk_score)
    /\ \A i \in 1..Len(df) :
          LET w == WidgetsOf(df[i])
          IN  /\ SameDerived(df[i],
                    [amount_to_avg_ratio |-> amount_to_avg(w),
                     txn_burst |-> txn_burst(w),
                     risk_composite |-> risk_comp(w)])
              /\ ClosedForm(df[i], df[i].amount, df[i].avg_amount_30d,
                            df[i].num_transactions_1h, df[i].num_transactions_24h,
                            df[i].velocity_score, df[i].geo_risk_score)

\* C4 witness: the app has assembled the record amount = 120, avg = 85 with
\* ratio 120/86 while a training frame with its derived columns is in memory
C4_Witness ==
    /\ input_data # NoData
    /\ input_data.amount = <<120, 1>>
    /\ REq(input_data.amount_to_avg_ratio, <<120, 86>>)
    /\ REq(input_data.txn_burst, <<1, 5>>)
    /\ REq(input_data.risk_composite, <<3, 40>>)
    /\ Len(df) > 0

\* C5: when one of the three files is absent at its read, the app marks the
\* model as not loaded; a run whose load failed shows the message and stops
\* with no record assembled, no frame, no probability, decision or tier, and
\* only a new script run follows it.
C5_NoInferenceWithoutArtifacts ==
    [][ /\ (apc = "load_model" /\ ~disk.model.present /\ apc' # apc)
            => (apc' = "check" /\ ~MODEL_LOADED')
        /\ (apc = "load_scaler" /\ ~disk.scaler.present /\ apc' # apc)
            => (apc' = "check" /\ ~MODEL_LOADED')
        /\ (apc = "load_features" /\ ~disk.features.present /\ apc' # apc)
            => (apc' = "check" /\ ~MODEL_LOADED')
        /\ (apc = "check" /\ ~MODEL_LOADED /\ apc' # apc)
            => /\ apc' = "stopped"
               /\ shown' = "model_files_not_found"
               /\ input_data' = NoData
               /\ input_df' = <<>>
               /\ NoResult'
        /\ (apc = "stopped" /\ apc' # apc)
            => (apc' \in {"load_model", "check"} /\ input_data' = NoData /\ NoResult')
      ]_vars

\* C5 witness: a run has stopped on the message although the model file was
\* there and had been read: a later file was the absent one
C5_Witness ==
    /\ apc = "stopped"
    /\ shown = "model_files_not_found"
    /\ model.present
    /\ ~MODEL_LOADED
    /\ input_data = NoData
    /\ NoResult

\* C6: when the persisted list names a field that the assembled record does
\* not hold, the run ends in an error that names exactly the missing fields,
\* and no frame, probability, decision or tier exists for that record.
C6_MissingFieldIsAnError ==
    (apc \in {"done", "error"} /\ SeqToSet(features.names) \ DOMAIN input_data # {})
        => /\ apc = "error"
           /\ app_err.kind = "KeyError"
           /\ app_err.what = SeqToSet(features.names) \ DOMAIN input_data
           /\ input_df = <<>>
           /\ NoResult

\* C6 witness: a run ended in the KeyError that names txn_velocity
C6_Witness ==
    /\ apc = "error"
    /\ app_err.kind = "KeyError"
    /\ app_err.what = {"txn_velocity"}
    /\ input_data # NoData

ValidParams == N > 0 /\ FRAUD_RATE[1] > 0 /\ FRAUD_RATE[1] < FRAUD_RATE[2]
DatasetProduced == "generate" \in SeqToSet(steps)
DatasetInMemory == DatasetProduced /\ tpc # "killed"
FraudRowsOf(frame) == Cardinality({i \in 1..Len(frame) : frame[i].is_fraud = 1})
LegitRowsOf(frame) == Cardinality({i \in 1..Len(frame) : frame[i].is_fraud = 0})

\* C7: for valid (N, rate) the generated frame has exactly N rows, its fraud
\* rows and legitimate rows add up to N, and the fraud rows are within one
\* whole row of N * rate; the defaults 50000 and 0.02 give 1000 and 49000.
C7_RowCounts ==
    /\ (ValidParams /\ DatasetInMemory) =>
          /\ Len(df) = N
          /\ FraudRowsOf(df) + LegitRowsOf(df) = N
          /\ FraudRowsOf(df) = n_fraud
          /\ LegitRowsOf(df) = n_legit
          /\ FraudRowsOf(df) * FRAUD_RATE[2] <= N * FRAUD_RATE[1]
          /\ N * FRAUD_RATE[1] < (FraudRowsOf(df) + 1) * FRAUD_RATE[2]
    /\ tpc # "idle" =>
          /\ NFraud(50000, <<2, 100>>) = 1000
          /\ NLegit(50000, <<2, 100>>) = 49000

\* C7 witness: a frame generated for a valid pair whose product N * rate is
\* not a whole number of rows
C7_Witness ==
    /\ ValidParams
    /\ DatasetInMemory
    /\ (N * FRAUD_RATE[1]) % FRAUD_RATE[2] # 0
    /\ Len(df) = N
    /\ FraudRowsOf(df) = n_fraud

\* C8 as stated: with N <= 0 or a rate outside (0, 1) the run ends in an error
\* before any frame exists, so that no split, fit, evaluation or write follows.
C8_FailFast ==
    ~ValidParams =>
        /\ ~DatasetProduced
        /\ tpc \in {"idle", "start", "failed", "killed"}
        /\ steps = <<>>

\* C9 as stated: the three artifacts a process has loaded were written by one
\* and the same training run.
C9_LoadedFromOneRun ==
    cache.loaded =>
        /\ cache.model.run = cache.scaler.run
        /\ cache.scaler.run = cache.features.run

Mixed ==
    ~(model.run = scaler.run /\ scaler.run = features.run)

\* C10: three files that are present are loaded whatever runs wrote them, and
\* a triple that one run did not write is used for inference like any other:
\* the run ends with a probability, a decision and a tier, no error is
\* recorded and nothing but the result is shown.
C10_NoCompatibilityCheck ==
    (model.present /\ scaler.present /\ features.present /\ Mixed
        /\ apc \in {"check", "inputs", "done", "error", "stopped"})
        => /\ MODEL_LOADED
           /\ cache.loaded
           /\ apc \notin {"error", "stopped"}
           /\ app_err = NoError
           /\ shown = "none"
           /\ apc = "done" => (prob_fraud # NoProb /\ prediction \in {0, 1})

\* C10 witness: an inference completed on a model, a scaler and a list that
\* one run did not write
C10_Witness ==
    /\ InferenceDone
    /\ model.present /\ scaler.present /\ features.present
    /\ Mixed
    /\ prob_fraud # NoProb

InUnit(x) == ~RLt(x, RInt(0)) /\ ~RGt(x, RInt(1))

\* C13: a record the app has assembled carries the 15 raw field names with
\* amount >= 0, hour_of_day in 0..23, day_of_week in 0..6, merchant_category
\* in 0..9, the three flags in {0, 1} and the percentage and the two scores in
\* [0, 1]; the seven day names map one-to-one onto 0..6, Mon first.
C13_RecordInRanges ==
    input_data # NoData =>
        /\ SeqToSet(RawFields) \subseteq DOMAIN input_data
        /\ ~RLt(input_data.amount, RInt(0))
        /\ input_data.hour_of_day \in 0..23
        /\ input_data.day_of_week \in 0..6
        /\ input_data.merchant_category \in 0..9
        /\ input_data.is_online \in {0, 1}
        /\ input_data.is_international \in {0, 1}
        /\ input_data.card_present \in {0, 1}
        /\ InUnit(input_data.credit_limit_used_pct)
        /\ InUnit(input_data.velocity_score)
        /\ InUnit(input_data.geo_risk_score)
        /\ Cardinality(DOMAIN dow_map) = 7
        /\ {dow_map[d] : d \in DOMAIN dow_map} = 0..6
        /\ dow_map["Mon"] = 0 /\ dow_map["Sun"] = 6

\* C13 witness: the record of the widgets at the upper end of their ranges:
\* Sunday, amount 5000, merchant category 9, every flag and score at 1
C13_Witness ==
    /\ input_data # NoData
    /\ input_data.day_of_week = 6
    /\ input_data.amount = <<5000, 1>>
    /\ input_data.merchant_category = 9
    /\ input_data.is_international = 1
    /\ REq(input_data.geo_risk_score, RInt(1))

\* C14: a scaler exists only after the split; it is fitted on the rows of the
\* training partition and on no other row; the training and the test
\* partition are both transformed by that scaler; and the scaler file a run
\* writes holds that scaler.
C14_ScalerFitOnTrainOnly ==
    /\ tpc \in {"start", "generated", "split"} => ~fit_scaler.present
    /\ fit_scaler.present =>
          /\ Len(steps) >= 3
          /\ SubSeq(steps, 1, 3) = <<"generate", "split", "scale">>
          /\ fit_scaler.seen = X_train
          /\ BagSize(fit_scaler.seen, DOMAIN fit_scaler.seen) = NTrain(Len(df))
          /\ X_train_sc = Scaled(X_train, fit_scaler)
          /\ X_test_sc = Scaled(X_test, fit_scaler)
    /\ (fit_scaler.present /\ tpc \in {"scaler_saved", "done"})
          => disk.scaler = fit_scaler

\* C14 witness: a run has finished and written its scaler, and its test
\* partition holds a row the scaler has not seen
C14_Witness ==
    /\ tpc = "done"
    /\ disk.scaler = fit_scaler
    /\ fit_scaler.seen = X_train
    /\ \E r \in DOMAIN X_test : r \notin DOMAIN fit_scaler.seen
    /\ X_test_sc.by = fit_scaler

\* the raw fields and the label of a row of the frame
LabelledRaw(row) == [c \in SeqToSet(RawFields) \cup {"is_fraud"} |-> row[c]]

\* the two populations with their labels, in the order they are concatenated
Concatenated ==
    [i \in 1..n_legit |-> WithLabel(make_legit(SEED, 0, n_legit)[i], 0)]
        \o [i \in 1..n_fraud |-> WithLabel(make_fraud(SEED, n_legit, n_fraud)[i], 1)]

\* C15: the frame a run has generated holds, as a multiset of (raw fields,
\* label) rows, exactly the rows of the two populations it concatenated; a row
\* labelled fraud is a row of the fraud population and a row labelled
\* legitimate one of the legitimate population; the two counts are n_fraud and
\* n_legit; and the derived columns of a row are those of its own raw fields.
C15_ShufflePermutesRows ==
    DatasetInMemory =>
        /\ BagOfRows([i \in 1..Len(df) |-> LabelledRaw(df[i])], 1..Len(df))
              = BagOfRows(Concatenated, 1..Len(Concatenated))
        /\ \A i \in 1..Len(df) :
              /\ df[i].is_fraud = 1 => RawOf(df[i]) \in FraudRows
              /\ df[i].is_fraud = 0 => RawOf(df[i]) \in LegitRows
              /\ df[i] = TrainDerived(LabelledRaw(df[i]))
        /\ FraudRowsOf(df) = n_fraud
        /\ LegitRowsOf(df) = n_legit

\* C15 witness: a frame of both classes whose first row is not the first row
\* that was concatenated
C15_Witness ==
    /\ DatasetInMemory
    /\ FraudRowsOf(df) >= 2
    /\ LegitRowsOf(df) >= 2
    /\ LabelledRaw(df[1]) # Concatenated[1]
    /\ df[1].is_fraud = 1

\* C16: a step of a training run changes the artifact files only after
\* generation, split, scaling, fitting and evaluation have completed in that
\* run; a step that raises leaves the files as they are and is one of those
\* five; and a failed run takes no further step: nothing is retried and the
\* files stay as they are until another run is started.
C16_ArtifactsWrittenLast ==
    [][ /\ disk' # disk
            => /\ tpc \in {"evaluated", "model_saved", "scaler_saved"}
               /\ Len(steps) >= 5
               /\ SubSeq(steps, 1, 5) = <<"generate", "split", "scale", "fit", "evaluate">>
        /\ (tpc' = "failed" /\ tpc # "failed")
            => /\ disk' = disk
               /\ tpc \in {"start", "generated", "split", "scaled", "fitted"}
               /\ steps' = steps
               /\ "dump_model" \notin SeqToSet(steps)
        /\ tpc = "failed"
            => /\ disk' = disk
               /\ tpc' = "failed" \/ (tpc' = "start" /\ run' = run + 1)
      ]_vars

\* C16 witness: a run has failed in its evaluation, after fitting, and the
\* three files of the earlier training are on disk as they were
C16_Witness ==
    /\ tpc = "failed"
    /\ terr.at = "predict_proba"
    /\ steps = <<"generate", "split", "scale", "fit">>
    /\ disk = LegacyDisk(FEATURES)

\* C17: the decision and the tier of an inference agree in the fraud
\* direction: fraud comes with HIGH or CRITICAL, LOW and MODERATE come with
\* legitimate, CRITICAL comes with fraud, and HIGH comes with legitimate at
\* p = 0.5 exactly and nowhere else.
C17_DecisionAgreesWithTier ==
    InferenceDone =>
        /\ prediction = 1 => risk_tier \in {"HIGH", "CRITICAL"}
        /\ risk_tier \in {"LOW", "MODERATE"} => prediction = 0
        /\ risk_tier = "CRITICAL" => prediction = 1
        /\ (risk_tier = "HIGH" /\ prediction = 0) <=> (2 * prob_fraud[1] = prob_fraud[2])

\* C17 witness: an inference that returned 0.5: tier HIGH, decision legitimate
C17_Witness ==
    /\ InferenceDone
    /\ REq(prob_fraud, <<1, 2>>)
    /\ risk_tier = "HIGH"
    /\ prediction = 0

\* the input conditions of the risk factors that hold for a record
Conditions(data) ==
    {c \in {"amount", "hour", "international", "distance", "burst", "velocity",
            "geo", "credit"} :
        CASE c = "amount" -> RGt(data.amount, RMul(RInt(2), data.avg_amount_30d))
          [] c = "hour" -> data.hour_of_day < 6
          [] c = "international" -> data.is_international = 1
          [] c = "distance" -> RGt(data.distance_from_home, RInt(200))
          [] c = "burst" -> data.num_transactions_1h > 5
          [] c = "velocity" -> RGt(data.velocity_score, <<7, 10>>)
          [] c = "geo" -> RGt(data.geo_risk_score, <<7, 10>>)
          [] c = "credit" -> RGt(data.credit_limit_used_pct, <<85, 100>>)}

\* C19: the risk-factor list of an inference agrees with its decision: with
\* p <= 0.5 the decision is legitimate and the list is the single LOW entry;
\* with p > 0.5 the decision is fraud and the list holds one HIGH or MED entry
\* for each of the eight conditions that holds for the record, no other entry
\* and never the LOW one, so it is empty when none holds.
C19_FlagsAgreeWithDecision ==
    InferenceDone =>
        IF ~RGt(prob_fraud, <<1, 2>>)
          THEN /\ prediction = 0
               /\ flags = <<[level |-> "LOW", what |-> "none"]>>
          ELSE /\ prediction = 1
               /\ \A i \in 1..Len(flags) : flags[i].level \in {"HIGH", "MED"}
               /\ {flags[i].what : i \in 1..Len(flags)} = Conditions(input_data)
               /\ Len(flags) = Cardinality(Conditions(input_data))
               /\ Conditions(input_data) = {} => flags = <<>>

\* C19 witness: a fraud decision on a record for which none of the eight
\* conditions holds: the list is empty
C19_Witness ==
    /\ InferenceDone
    /\ prediction = 1
    /\ Conditions(input_data) = {}
    /\ flags = <<>>

DenominatorsOk(r) ==
    /\ r.num_transactions_24h >= 0
    /\ r.num_transactions_24h + 1 >= 1
    /\ ~RLt(RAdd(r.avg_amount_30d, RInt(1)), RInt(1))
    /\ r.amount_to_avg_ratio[2] # 0
    /\ r.txn_burst[2] # 0

\* C20: the derived features are never a division by zero: a record of the
\* widgets has avg_amount_30d >= 1 and num_transactions_24h >= 0, a generated
\* row has avg_amount_30d > 0 and num_transactions_24h >= 0, and for both the
\* denominators avg_amount_30d + 1 and num_transactions_24h + 1 are at least 1
\* and the two quotients are defined.
C20_NoDivisionByZero ==
    /\ input_data # NoData =>
          /\ ~RLt(input_data.avg_amount_30d, RInt(1))
          /\ DenominatorsOk(input_data)
    /\ \A i \in 1..Len(df) :
          /\ RGt(df[i].avg_amount_30d, RInt(0))
          /\ DenominatorsOk(df[i])

\* C20 witness: the widgets at avg_amount_30d = 1 and num_transactions_24h = 0,
\* and a generated row with num_transactions_24h = 0 in the frame
C20_Witness ==
    /\ input_data # NoData
    /\ input_data.num_transactions_24h = 0
    /\ input_data.avg_amount_30d = <<1, 1>>
    /\ REq(input_data.txn_burst, RInt(20))
    /\ \E i \in 1..Len(df) : df[i].num_transactions_24h = 0

====
